---- MODULE Spec2Model ----
(***************************************************************************)
(* A model of google.scc.aggregators.operation.Aggregator.                 *)
(*                                                                         *)
(* Python objects are modelled with their identity: MetricValue messages   *)
(* live in mvHeap and Operation messages in opHeap, so that references     *)
(* shared between the aggregator, the caller's operations and an exported  *)
(* operation are visible.  Metric names are the integers 1, 2, 3, standing *)
(* for three strings in lexicographic order.  An optional timestamp is a   *)
(* sequence: <<>> when the field is None, <<t>> when it is set.            *)
(***************************************************************************)
EXTENDS Integers, Sequences, FiniteSets, TLC

VARIABLES
    kinds,      \* self._kinds
    by_name,    \* self._metric_values_by_name_then_sign: name -> (signature -> MetricValue id)
    selfOp,     \* self._op: a reference into opHeap
    opHeap,     \* the Operation objects: reference -> Operation
    mvHeap,     \* the MetricValue objects: id -> MetricValue
    result,     \* the reference returned by the last as_operation ("None" before the first)
    exported,   \* history: the content of that operation when it was returned
    exportedAt, \* history: the number of calls made before it was returned
    calls,      \* history: the operations given to the constructor and to add, as they were at the call
    raised,     \* TRUE when the last add raised an error
    an_op,      \* the Operation that KnownMetrics.do_operation_update updates
    last,       \* history: the last call on KnownMetrics, with its arguments and its answer
    updates     \* history: the number of do_operation_update calls made

\* The variables of the aggregator and those of the metric registry.
aggVars == <<kinds, by_name, selfOp, opHeap, mvHeap, result, exported, exportedAt, calls, raised>>
regVars == <<an_op, last, updates>>

vars == <<aggVars, regVars>>

\* ------------------------------------------------------------------ bounds

\* The number of add calls of a behaviour.
MaxAdds == 2

\* The number of do_operation_update calls of a behaviour.
MaxUpdates == 1

\* ------------------------------------------------------------------ helpers

None == "None"

Range(f) == {f[x] : x \in DOMAIN f}

Put(f, k, v) == [x \in DOMAIN f \cup {k} |-> IF x = k THEN v ELSE f[x]]

EmptyMap == [x \in {} |-> 0]

MaxOf(S) == IF S = {} THEN 0 ELSE CHOOSE x \in S : \A y \in S : y <= x

Perms(S) == {s \in [1..Cardinality(S) -> S] : Range(s) = S}

RECURSIVE CountBefore(_, _)
\* The number of samples in the value sets before the i-th.
CountBefore(sets, i) ==
    IF i = 1 THEN 0
    ELSE CountBefore(sets, i - 1) + Len(sets[i - 1].metricValues)

\* ------------------------------------------------------------------ messages

DELTA == "DELTA"
GAUGE == "GAUGE"

\* The content of an Operation: its metric values by value, not by reference.
Content(op, mh) ==
    [op EXCEPT !.metricValueSets =
        [i \in 1..Len(op.metricValueSets) |->
            [metricName |-> op.metricValueSets[i].metricName,
             metricValues |->
                [j \in 1..Len(op.metricValueSets[i].metricValues) |->
                    mh[op.metricValueSets[i].metricValues[j]]]]]]

\* A new Operation message with the given content: every MetricValue of it
\* is a new object.
NewOperation(content, mh) ==
    LET base == MaxOf(DOMAIN mh)
        sets == content.metricValueSets
        idOf(i, j) == base + CountBefore(sets, i) + j
        widest == MaxOf({Len(sets[i].metricValues) : i \in 1..Len(sets)})
        places == {<<i, j>> \in (1..Len(sets)) \X (1..widest) : j <= Len(sets[i].metricValues)}
        fresh == {idOf(p[1], p[2]) : p \in places}
        placeOf(id) == CHOOSE p \in places : idOf(p[1], p[2]) = id
    IN  [op |-> [content EXCEPT !.metricValueSets =
                    [i \in 1..Len(sets) |->
                        [metricName |-> sets[i].metricName,
                         metricValues |->
                            [j \in 1..Len(sets[i].metricValues) |-> idOf(i, j)]]]],
         mvHeap |-> [id \in DOMAIN mh \cup fresh |->
                        IF id \in DOMAIN mh THEN mh[id]
                        ELSE sets[placeOf(id)[1]].metricValues[placeOf(id)[2]]]]

\* A mutant of CopyProtoMessage: the "copy" is the message itself.
CopyProtoMessage_alias(src, dst, oh, mh) ==
    [ref |-> src, opHeap |-> oh, mvHeap |-> mh]

\* encoding.CopyProtoMessage: a deep copy of the Operation at src, held at dst.
CopyProtoMessage(src, dst, oh, mh) ==
    LET n == NewOperation(Content(oh[src], mh), mh)
    IN  [ref |-> dst, opHeap |-> Put(oh, dst, n.op), mvHeap |-> n.mvHeap]

\* ------------------------------------------------------------------ collaborators

\* timestamp.compare: a total order on timestamps, as -1, 0 or 1.
compare(t1, t2) == IF t1 < t2 THEN -1 ELSE IF t1 > t2 THEN 1 ELSE 0

RECURSIVE InsertLabel(_, _)
\* The label <<key, value>> put at its place in a sequence sorted by key.
InsertLabel(l, s) ==
    IF s = <<>> THEN <<l>>
    ELSE IF l[1] <= Head(s)[1] THEN <<l>> \o s
    ELSE <<Head(s)>> \o InsertLabel(l, Tail(s))

RECURSIVE SortLabels(_)
SortLabels(labels) ==
    IF labels = <<>> THEN <<>>
    ELSE InsertLabel(Head(labels), SortLabels(Tail(labels)))

\* metric_value.sign: the label mapping, sorted by key and serialised.
sign(mv) == SortLabels(mv.labels)

\* distribution.create_exponential: n + 2 zeroed buckets and no sample.
create_exponential(n, growth, scale) ==
    [numFiniteBuckets |-> n, growthFactor |-> growth, scale |-> scale,
     bucketCounts |-> [i \in 1..(n + 2) |-> 0], count |-> 0]

RECURSIVE Power(_, _)
Power(b, e) == IF e = 0 THEN 1 ELSE b * Power(b, e - 1)

\* The position in bucketCounts (from 1) of the bucket of a value: the
\* underflow bucket below scale, the overflow bucket from the last finite
\* boundary on, else the finite bucket of the largest i with
\* scale * growthFactor^i <= value.  For integers that comparison is
\* growthFactor^i <= value \div scale, which stays within the integers of
\* the model checker.
BucketOf(value, d) ==
    IF value < d.scale THEN 1
    ELSE IF value \div d.scale >= Power(d.growthFactor, d.numFiniteBuckets)
         THEN d.numFiniteBuckets + 2
    ELSE 2 + MaxOf({i \in 0..(d.numFiniteBuckets - 1) :
                        Power(d.growthFactor, i) <= value \div d.scale})

\* distribution.add_sample, at the level of the bucket counts and the count.
add_sample(value, d) ==
    [d EXCEPT !.count = @ + 1, !.bucketCounts[BucketOf(value, d)] = @ + 1]

SameShape(a, b) ==
    /\ a.numFiniteBuckets = b.numFiniteBuckets
    /\ a.growthFactor = b.growthFactor
    /\ a.scale = b.scale

\* distribution.merge: prior is merged into latest; an error when the bucket
\* shapes differ.
distribution_merge(prior, latest) ==
    IF ~SameShape(prior, latest) THEN [err |-> TRUE, latest |-> latest]
    ELSE [err |-> FALSE,
          latest |-> [latest EXCEPT
                        !.count = @ + prior.count,
                        !.bucketCounts = [i \in DOMAIN @ |-> @[i] + prior.bucketCounts[i]]]]

\* metric_value.merge(kind, prior, latest): what latest holds afterwards.
\* Under DELTA two int64 payloads are summed and two distributions are
\* merged; under any other kind, and for any other payload, latest is left as
\* it is.
merge(kind, prior, latest) ==
    IF kind # DELTA THEN [err |-> FALSE, latest |-> latest]
    ELSE IF prior.int64Value # <<>> /\ latest.int64Value # <<>>
    THEN [err |-> FALSE,
          latest |-> [latest EXCEPT !.int64Value = <<prior.int64Value[1] + @[1]>>]]
    ELSE IF prior.distributionValue # <<>> /\ latest.distributionValue # <<>>
    THEN LET m == distribution_merge(prior.distributionValue[1], latest.distributionValue[1])
         IN  [err |-> m.err, latest |-> [latest EXCEPT !.distributionValue = <<m.latest>>]]
    ELSE [err |-> FALSE, latest |-> latest]

\* ------------------------------------------------------------------ Aggregator

\* A mutant of DEFAULT_KIND: a metric without a kind is a gauge.
DEFAULT_KIND_gauge == GAUGE

\* Aggregator.DEFAULT_KIND
DEFAULT_KIND == DELTA

\* A mutant of KindOf: the kind map is not read.
KindOf_default(k, name) == DEFAULT_KIND

\* self._kinds.get(name, self.DEFAULT_KIND)
KindOf(k, name) == IF name \in DOMAIN k THEN k[name] ELSE DEFAULT_KIND

RECURSIVE MergeValues_nomerge(_, _, _, _)
\* A mutant of MergeValues: the sample is stored without being merged.
MergeValues_nomerge(name, kind, values, st) ==
    IF values = <<>> \/ st.err THEN st
    ELSE LET mv == Head(values)
         IN  MergeValues_nomerge(name, kind, Tail(values),
                [st EXCEPT !.map[name] = Put(@, sign(st.mvHeap[mv]), mv)])

RECURSIVE MergeValues_rawsign(_, _, _, _)
\* A mutant of MergeValues: the key of a sample is its labels as they come.
MergeValues_rawsign(name, kind, values, st) ==
    IF values = <<>> \/ st.err THEN st
    ELSE LET mv == Head(values)
             by_signature == st.map[name]
             signature == st.mvHeap[mv].labels
             known == signature \in DOMAIN by_signature
             m == IF known
                  THEN merge(kind, st.mvHeap[by_signature[signature]], st.mvHeap[mv])
                  ELSE [err |-> FALSE, latest |-> st.mvHeap[mv]]
         IN  IF m.err THEN [st EXCEPT !.err = TRUE]
             ELSE MergeValues_rawsign(name, kind, Tail(values),
                    [map |-> [st.map EXCEPT ![name] = Put(by_signature, signature, mv)],
                     mvHeap |-> [st.mvHeap EXCEPT ![mv] = m.latest],
                     err |-> FALSE])

RECURSIVE MergeValues_anyway(_, _, _, _)
\* A mutant of MergeValues: an error of the merge is swallowed and the
\* sample stored.
MergeValues_anyway(name, kind, values, st) ==
    IF values = <<>> THEN st
    ELSE LET mv == Head(values)
             by_signature == st.map[name]
             signature == sign(st.mvHeap[mv])
             known == signature \in DOMAIN by_signature
             m == IF known
                  THEN merge(kind, st.mvHeap[by_signature[signature]], st.mvHeap[mv])
                  ELSE [err |-> FALSE, latest |-> st.mvHeap[mv]]
         IN  MergeValues_anyway(name, kind, Tail(values),
                [map |-> [st.map EXCEPT ![name] = Put(by_signature, signature, mv)],
                 mvHeap |-> [st.mvHeap EXCEPT ![mv] = m.latest],
                 err |-> FALSE])

RECURSIVE MergeValues_keepprior(_, _, _, _)
\* A mutant of MergeValues: the entry of a known signature keeps the prior
\* sample.
MergeValues_keepprior(name, kind, values, st) ==
    IF values = <<>> \/ st.err THEN st
    ELSE LET mv == Head(values)
             by_signature == st.map[name]
             signature == sign(st.mvHeap[mv])
             known == signature \in DOMAIN by_signature
             m == IF known
                  THEN merge(kind, st.mvHeap[by_signature[signature]], st.mvHeap[mv])
                  ELSE [err |-> FALSE, latest |-> st.mvHeap[mv]]
         IN  IF m.err THEN [st EXCEPT !.err = TRUE]
             ELSE MergeValues_keepprior(name, kind, Tail(values),
                    [map |-> IF known THEN st.map
                             ELSE [st.map EXCEPT ![name] = Put(by_signature, signature, mv)],
                     mvHeap |-> [st.mvHeap EXCEPT ![mv] = m.latest],
                     err |-> FALSE])

RECURSIVE MergeValues(_, _, _, _)
\* The inner loop of _merge_metric_values over the samples of one value set.
\* st is [map, mvHeap, err]; the loop ends where metric_value.merge raises.
MergeValues(name, kind, values, st) ==
    IF values = <<>> \/ st.err THEN st
    ELSE LET mv == Head(values)
             by_signature == st.map[name]
             signature == sign(st.mvHeap[mv])
             known == signature \in DOMAIN by_signature
             m == IF known
                  THEN merge(kind, st.mvHeap[by_signature[signature]], st.mvHeap[mv])
                  ELSE [err |-> FALSE, latest |-> st.mvHeap[mv]]
         IN  IF m.err THEN [st EXCEPT !.err = TRUE]
             ELSE MergeValues(name, kind, Tail(values),
                    [map |-> [st.map EXCEPT ![name] = Put(by_signature, signature, mv)],
                     mvHeap |-> [st.mvHeap EXCEPT ![mv] = m.latest],
                     err |-> FALSE])

RECURSIVE MergeSets_fresh(_, _, _)
\* A mutant of MergeSets: each value set starts a new map for its name.
MergeSets_fresh(k, sets, st) ==
    IF sets = <<>> \/ st.err THEN st
    ELSE LET name == Head(sets).metricName
             st1 == [st EXCEPT !.map = Put(st.map, name, EmptyMap)]
         IN  MergeSets_fresh(k, Tail(sets),
                MergeValues(name, KindOf(k, name), Head(sets).metricValues, st1))

RECURSIVE MergeSets(_, _, _)
\* The outer loop of _merge_metric_values; reading the defaultdict at a new
\* name makes the entry of that name.
MergeSets(k, sets, st) ==
    IF sets = <<>> \/ st.err THEN st
    ELSE LET name == Head(sets).metricName
             st1 == IF name \in DOMAIN st.map THEN st
                    ELSE [st EXCEPT !.map = Put(st.map, name, EmptyMap)]
         IN  MergeSets(k, Tail(sets),
                MergeValues(name, KindOf(k, name), Head(sets).metricValues, st1))

\* Aggregator._merge_metric_values
_merge_metric_values(k, other_op, map, mh) ==
    MergeSets(k, other_op.metricValueSets, [map |-> map, mvHeap |-> mh, err |-> FALSE])

\* A mutant of _merge_timestamps: the start time follows the later start.
_merge_timestamps_later(op, other_op) ==
    LET op1 == IF /\ other_op.startTime # <<>>
                  /\ \/ op.startTime = <<>>
                     \/ compare(other_op.startTime[1], op.startTime[1]) = 1
               THEN [op EXCEPT !.startTime = other_op.startTime]
               ELSE op
    IN  IF /\ other_op.endTime # <<>>
           /\ \/ op1.endTime = <<>>
              \/ compare(op1.endTime[1], other_op.endTime[1]) = -1
        THEN [op1 EXCEPT !.endTime = other_op.endTime]
        ELSE op1

\* Aggregator._merge_timestamps: the Operation self._op after the call.
_merge_timestamps(op, other_op) ==
    LET op1 == IF /\ other_op.startTime # <<>>
                  /\ \/ op.startTime = <<>>
                     \/ compare(other_op.startTime[1], op.startTime[1]) = -1
               THEN [op EXCEPT !.startTime = other_op.startTime]
               ELSE op
    IN  IF /\ other_op.endTime # <<>>
           /\ \/ op1.endTime = <<>>
              \/ compare(op1.endTime[1], other_op.endTime[1]) = -1
        THEN [op1 EXCEPT !.endTime = other_op.endTime]
        ELSE op1

RECURSIVE Insert(_, _)
\* A name put at its place in an ascending sequence of names.
Insert(x, s) ==
    IF s = <<>> THEN <<x>>
    ELSE IF x <= Head(s) THEN <<x>> \o s
    ELSE <<Head(s)>> \o Insert(x, Tail(s))

\* A mutant of sorted: the keys are left in the order they came in.
sorted_asis(keys) == keys

RECURSIVE sorted(_)
\* sorted(keys): the keys in ascending order.
sorted(keys) ==
    IF keys = <<>> THEN <<>>
    ELSE Insert(Head(keys), sorted(Tail(keys)))

\* mvs.values(): the values of a dictionary, in an order that is the
\* dictionary's own.
values(mvs) ==
    CHOOSE s \in [1..Cardinality(DOMAIN mvs) -> Range(mvs)] :
        \E o \in Perms(DOMAIN mvs) : s = [i \in DOMAIN o |-> mvs[o[i]]]

\* The metric value sets as_operation appends to its result, the
\* dictionary's keys being met in the order keys.
ExportedSets(keys, map) ==
    LET names == sorted(keys)
    IN  [i \in 1..Len(names) |->
            [metricName |-> names[i], metricValues |-> values(map[names[i]])]]

\* A mutant of Construct: the metric value sets of the copy are kept.
Construct_keepsets(content, kindsArg) ==
    LET k == IF kindsArg.given THEN kindsArg.map ELSE EmptyMap
        n == NewOperation(content, EmptyMap)
        c == CopyProtoMessage("initial_op", "our_op",
                              Put(EmptyMap, "initial_op", n.op), n.mvHeap)
        m == _merge_metric_values(k, c.opHeap[c.ref], EmptyMap, c.mvHeap)
    IN  [kinds |-> k, by_name |-> m.map, mvHeap |-> m.mvHeap, err |-> m.err,
         selfOp |-> c.ref, opHeap |-> c.opHeap]

\* Aggregator.__init__(initial_op, kinds), initial_op being a new message of
\* the given content: the object's fields after construction, and err when
\* the merge of the copy's own samples raised.
Construct(content, kindsArg) ==
    LET k == IF kindsArg.given THEN kindsArg.map ELSE EmptyMap
        n == NewOperation(content, EmptyMap)
        c == CopyProtoMessage("initial_op", "our_op",
                              Put(EmptyMap, "initial_op", n.op), n.mvHeap)
        m == _merge_metric_values(k, c.opHeap[c.ref], EmptyMap, c.mvHeap)
    IN  [kinds |-> k, by_name |-> m.map, mvHeap |-> m.mvHeap, err |-> m.err,
         selfOp |-> c.ref,
         opHeap |-> [c.opHeap EXCEPT ![c.ref].metricValueSets = <<>>]]

\* A mutant of add: the log entries of other_op are put first.
add_prepend(other, oh, mh) ==
    LET oh1 == [oh EXCEPT ![selfOp].logEntries = oh[other].logEntries \o @]
        oh2 == [oh1 EXCEPT ![selfOp] = _merge_timestamps(@, oh1[other])]
        m == _merge_metric_values(kinds, oh2[other], by_name, mh)
    IN  /\ opHeap' = oh2
        /\ by_name' = m.map
        /\ mvHeap' = m.mvHeap
        /\ raised' = m.err
        /\ calls' = Append(calls, [op |-> Content(oh[other], mh), raised |-> m.err])
        /\ UNCHANGED <<kinds, selfOp, result, exported, exportedAt>>
        /\ UNCHANGED regVars

\* Aggregator.add(other_op), other_op being the Operation at other in oh.
\* add, had it taken over the identity of the operation it is given.
add_adopt(other, oh, mh) ==
    LET oh1 == [oh EXCEPT ![selfOp].logEntries = @ \o oh[other].logEntries,
                          ![selfOp].operationId = oh[other].operationId,
                          ![selfOp].operationName = oh[other].operationName,
                          ![selfOp].consumerId = oh[other].consumerId]
        oh2 == [oh1 EXCEPT ![selfOp] = _merge_timestamps(@, oh1[other])]
        m == _merge_metric_values(kinds, oh2[other], by_name, mh)
    IN  /\ opHeap' = oh2
        /\ by_name' = m.map
        /\ mvHeap' = m.mvHeap
        /\ raised' = m.err
        /\ calls' = Append(calls, [op |-> Content(oh[other], mh), raised |-> m.err])
        /\ UNCHANGED <<kinds, selfOp, result, exported, exportedAt>>
        /\ UNCHANGED regVars

add(other, oh, mh) ==
    LET oh1 == [oh EXCEPT ![selfOp].logEntries = @ \o oh[other].logEntries]
        oh2 == [oh1 EXCEPT ![selfOp] = _merge_timestamps(@, oh1[other])]
        m == _merge_metric_values(kinds, oh2[other], by_name, mh)
    IN  /\ opHeap' = oh2
        /\ by_name' = m.map
        /\ mvHeap' = m.mvHeap
        /\ raised' = m.err
        /\ calls' = Append(calls, [op |-> Content(oh[other], mh), raised |-> m.err])
        /\ UNCHANGED <<kinds, selfOp, result, exported, exportedAt>>
        /\ UNCHANGED regVars

\* ------------------------------------------------------------------ inputs

\* Label mappings, as the sequence of their <<key, value>> items in insertion
\* order: AB and BA are one mapping, AB2 differs from it in one value.
NoLabels == <<>>
AB == << <<1, 1>>, <<2, 1>> >>
BA == << <<2, 1>>, <<1, 1>> >>
AB2 == << <<1, 2>>, <<2, 1>> >>

\* metric_value.create(labels=..., int64Value=v)
Int64(labels, v) == [labels |-> labels, int64Value |-> <<v>>, distributionValue |-> <<>>]

\* metric_value.create(labels=..., distributionValue=d), d holding one sample
Distribution(labels, shape, v) ==
    [labels |-> labels, int64Value |-> <<>>,
     distributionValue |-> <<add_sample(v, create_exponential(shape[1], shape[2], shape[3]))>>]

\* Bucket shapes: one shape and three that differ from it in the number of
\* buckets, in the growth factor and in the scale.
Shape == <<2, 10, 1>>
OtherShapes == {<<3, 10, 1>>, <<2, 2, 1>>, <<2, 10, 10>>}

\* An Operation message.
Operation(id, start, end, logs, sets) ==
    [operationId |-> id, operationName |-> id, consumerId |-> id,
     startTime |-> start, endTime |-> end, logEntries |-> logs,
     metricValueSets |-> sets]

MetricValueSet(name, mvs) == [metricName |-> name, metricValues |-> mvs]

\* Operations on which every merge succeeds.  Between them they differ in
\* identity, in the presence and the order of their times, in their log
\* entries, in the order of their metric names and in their labels.
SoundOps ==
    {Operation(1, <<2>>, <<2>>, <<1>>, <<MetricValueSet(1, <<Int64(AB, 1)>>)>>),
     Operation(1, <<1>>, <<>>, <<2, 1>>, <<MetricValueSet(1, <<Int64(BA, 2)>>)>>),
     Operation(2, <<>>, <<3>>, <<>>, <<MetricValueSet(1, <<Int64(AB2, 1)>>)>>),
     Operation(2, <<3>>, <<1>>, <<1, 1>>, <<MetricValueSet(2, <<Int64(NoLabels, 2)>>)>>),
     Operation(3, <<>>, <<>>, <<2>>,
               <<MetricValueSet(2, <<Int64(NoLabels, 1)>>),
                 MetricValueSet(1, <<Int64(AB, 1), Int64(BA, 2)>>)>>),
     Operation(3, <<>>, <<>>, <<>>, <<MetricValueSet(2, <<>>)>>),
     Operation(1, <<>>, <<>>, <<>>, <<MetricValueSet(3, <<Distribution(NoLabels, Shape, 0)>>)>>),
     Operation(1, <<2>>, <<>>, <<>>, <<MetricValueSet(3, <<Distribution(NoLabels, Shape, 5)>>)>>)}
    \cup {Operation(1, <<>>, <<>>, <<>>, <<MetricValueSet(3, <<Distribution(NoLabels, sh, 5)>>)>>) :
            sh \in OtherShapes}

\* An Operation whose second sample cannot be merged into its first.
UnsoundOps ==
    {Operation(1, <<1>>, <<3>>, <<2>>,
               <<MetricValueSet(3, <<Distribution(NoLabels, Shape, 5),
                                     Distribution(NoLabels, <<3, 10, 1>>, 5)>>),
                 MetricValueSet(1, <<Int64(AB, 1)>>)>>)}

Ops == SoundOps \cup UnsoundOps

\* The kinds argument of the constructor: None, or a dictionary that has no
\* entry for metric 3.
KindArgs ==
    {[given |-> FALSE, map |-> EmptyMap],
     [given |-> TRUE, map |-> [n \in {1, 2} |-> IF n = 1 THEN GAUGE ELSE DELTA]]}

\* ------------------------------------------------------------------ behaviour

\* The state after Aggregator(initial_op, kinds).
Init ==
    \E content \in Ops, kindsArg \in KindArgs :
        LET c == Construct(content, kindsArg)
        IN  /\ ~c.err
            /\ kinds = c.kinds
            /\ by_name = c.by_name
            /\ selfOp = c.selfOp
            /\ opHeap = c.opHeap
            /\ mvHeap = c.mvHeap
            /\ result = None
            /\ exported = None
            /\ exportedAt = 0
            /\ calls = <<[op |-> content, raised |-> FALSE]>>
            /\ raised = FALSE
            /\ an_op = None
            /\ last = None
            /\ updates = 0

\* The caller builds a new Operation and adds it.
AddNew ==
    /\ Len(calls) <= MaxAdds
    /\ \E content \in Ops :
        LET n == NewOperation(content, mvHeap)
        IN  add("other_op", Put(opHeap, "other_op", n.op), n.mvHeap)

\* The caller adds once more the Operation it added last.
AddAgain ==
    /\ Len(calls) <= MaxAdds
    /\ "other_op" \in DOMAIN opHeap
    /\ add("other_op", opHeap, mvHeap)

\* Aggregator.as_operation()
AsOperation ==
    LET c == CopyProtoMessage(selfOp, "result", opHeap, mvHeap)
    IN  \E keys \in Perms(DOMAIN by_name) :
            LET oh == [c.opHeap EXCEPT ![c.ref].metricValueSets = @ \o ExportedSets(keys, by_name)]
            IN  /\ opHeap' = oh
                /\ mvHeap' = c.mvHeap
                /\ result' = c.ref
                /\ exported' = Content(oh[c.ref], c.mvHeap)
                /\ exportedAt' = Len(calls)
                /\ UNCHANGED <<kinds, by_name, selfOp, calls, raised>>
                /\ UNCHANGED regVars

Next == AddNew \/ AddAgain \/ AsOperation

Spec == Init /\ [][Next]_vars

\* ------------------------------------------------------------------ properties

\* A label mapping as the set of its items.
LabelSet(labels) == {labels[i] : i \in DOMAIN labels}

RECURSIVE SamplesOfSets(_)
\* The samples of metric value sets, each with the name of its set, in the
\* order of the sets and of their values.
SamplesOfSets(sets) ==
    IF sets = <<>> THEN <<>>
    ELSE [j \in 1..Len(Head(sets).metricValues) |->
            [name |-> Head(sets).metricName, mv |-> Head(sets).metricValues[j]]]
         \o SamplesOfSets(Tail(sets))

RECURSIVE SamplesOf(_)
\* The samples of the operations of a sequence of calls, in call order.
SamplesOf(cs) ==
    IF cs = <<>> THEN <<>>
    ELSE SamplesOfSets(Head(cs).op.metricValueSets) \o SamplesOf(Tail(cs))

\* Those of them that have the given name and label mapping.
Matching(cs, name, L) ==
    SelectSeq(SamplesOf(cs), LAMBDA s : s.name = name /\ LabelSet(s.mv.labels) = L)

NamesOf(op) == {op.metricValueSets[i].metricName : i \in DOMAIN op.metricValueSets}

\* No call that raised had a sample of the given name.
Untroubled(cs, name) == \A i \in DOMAIN cs : cs[i].raised => name \notin NamesOf(cs[i].op)

\* The calls made before the last as_operation.
Prefix == SubSeq(calls, 1, exportedAt)

\* The samples of the last exported operation under a name and a label mapping.
ExportedSamples(name, L) ==
    {s.mv : s \in {x \in Range(SamplesOfSets(exported.metricValueSets)) :
                        x.name = name /\ LabelSet(x.mv.labels) = L}}

RECURSIVE SumInt64(_)
SumInt64(samples) ==
    IF samples = <<>> THEN 0
    ELSE Head(samples).mv.int64Value[1] + SumInt64(Tail(samples))

\* C1: under a DELTA metric with int64 payloads, the value as_operation
\* exports for a metric name and a label mapping is the sum of the values of
\* all the samples of that name and mapping in the initial and the added
\* operations; the sum does not depend on the order of the calls.
C1_DeltaSum ==
    result # None =>
        \A s \in Range(SamplesOf(Prefix)) :
            (/\ KindOf(kinds, s.name) = DELTA
             /\ s.mv.int64Value # <<>>
             /\ Untroubled(Prefix, s.name))
            => LET L == LabelSet(s.mv.labels)
                   out == ExportedSamples(s.name, L)
               IN  /\ out # {}
                   /\ \A e \in out :
                        e.int64Value = <<SumInt64(Matching(Prefix, s.name, L))>>

\* Three samples of one name and label mapping, written in both label
\* orders, have been summed and exported.
C1_Witness ==
    /\ result # None
    /\ \E s \in Range(SamplesOf(Prefix)) :
        /\ KindOf(kinds, s.name) = DELTA
        /\ s.mv.int64Value # <<>>
        /\ Len(Matching(Prefix, s.name, LabelSet(s.mv.labels))) = 3
        /\ \E t \in Range(Matching(Prefix, s.name, LabelSet(s.mv.labels))) :
                t.mv.labels # s.mv.labels
        /\ \E e \in ExportedSamples(s.name, LabelSet(s.mv.labels)) : e.int64Value[1] >= 4

\* C2: under a metric whose kind in the kind map is not DELTA, the value
\* exported for a name and a label mapping is the value of the sample of that
\* name and mapping that was merged last.
C2_LastWins ==
    result # None =>
        \A s \in Range(SamplesOf(Prefix)) :
            (/\ s.name \in DOMAIN kinds
             /\ kinds[s.name] # DELTA
             /\ Untroubled(Prefix, s.name))
            => LET L == LabelSet(s.mv.labels)
                   seen == Matching(Prefix, s.name, L)
                   out == ExportedSamples(s.name, L)
               IN  /\ out # {}
                   /\ \A e \in out :
                        /\ e.int64Value = seen[Len(seen)].mv.int64Value
                        /\ e.distributionValue = seen[Len(seen)].mv.distributionValue

\* Under a GAUGE metric a sample of value 1 has replaced one of value 2.
C2_Witness ==
    /\ result # None
    /\ \E s \in Range(SamplesOf(Prefix)) :
        LET seen == Matching(Prefix, s.name, LabelSet(s.mv.labels))
        IN  /\ s.name \in DOMAIN kinds
            /\ kinds[s.name] = GAUGE
            /\ Len(seen) >= 2
            /\ seen[Len(seen) - 1].mv.int64Value = <<2>>
            /\ seen[Len(seen)].mv.int64Value = <<1>>
            /\ \E e \in ExportedSamples(s.name, LabelSet(s.mv.labels)) : e.int64Value = <<1>>

MinOf(S) == CHOOSE x \in S : \A y \in S : x <= y

\* The start times and the end times that are present in a sequence of calls.
StartsOf(cs) == {cs[i].op.startTime[1] : i \in {k \in DOMAIN cs : cs[k].op.startTime # <<>>}}
EndsOf(cs) == {cs[i].op.endTime[1] : i \in {k \in DOMAIN cs : cs[k].op.endTime # <<>>}}

\* The time range the given calls should leave in an operation.
InRange(op, cs) ==
    /\ op.startTime = IF StartsOf(cs) = {} THEN <<>> ELSE <<MinOf(StartsOf(cs))>>
    /\ op.endTime = IF EndsOf(cs) = {} THEN <<>> ELSE <<MaxOf(EndsOf(cs))>>

\* C3: the exported startTime is the earliest of the start times present in
\* the initial and the added operations, the exported endTime the latest of
\* the end times present; an absent bound neither constrains nor clears the
\* tracked one, and a narrower bound leaves it as it is.
C3_TimeRange ==
    /\ InRange(opHeap[selfOp], calls)
    /\ result # None => InRange(exported, Prefix)

\* An operation without a start time and one with a narrower start and end
\* have been added, and the range has been exported.
C3_Witness ==
    /\ result # None
    /\ exportedAt = 3
    /\ calls[1].op.startTime = <<2>> /\ calls[1].op.endTime = <<2>>
    /\ calls[2].op.startTime = <<>> /\ calls[2].op.endTime = <<3>>
    /\ calls[3].op.startTime = <<3>> /\ calls[3].op.endTime = <<1>>
    /\ exported.startTime = <<2>> /\ exported.endTime = <<3>>

\* The names of the metric value sets of an operation, in their order.
SetNames(op) == [i \in DOMAIN op.metricValueSets |-> op.metricValueSets[i].metricName]

AllNames(cs) == UNION {NamesOf(cs[i].op) : i \in DOMAIN cs}

MergedNames(cs) == UNION {NamesOf(cs[i].op) : i \in {k \in DOMAIN cs : ~cs[k].raised}}

Ascending(names) == \A i, j \in DOMAIN names : i < j => names[i] < names[j]

\* C4: the metric value sets of every exported operation are in strictly
\* ascending order of metric name, one set for each metric name seen, and
\* an export that follows another with no add in between has the same order.
C4_SortedSets ==
    /\ [](result # None =>
            /\ Ascending(SetNames(exported))
            /\ MergedNames(Prefix) \subseteq Range(SetNames(exported))
            /\ Range(SetNames(exported)) \subseteq AllNames(Prefix))
    /\ [][(result # None /\ exportedAt = Len(calls) /\ exportedAt' = Len(calls'))
            => SetNames(exported') = SetNames(exported)]_vars

\* Three metric names, met in descending order, have been exported.
C4_Witness ==
    /\ result # None
    /\ exportedAt = 3
    /\ SetNames(calls[1].op) = <<3>>
    /\ SetNames(calls[2].op) = <<2, 1>>
    /\ SetNames(exported) = <<1, 2, 3>>

\* The state of the aggregator: its fields, and the MetricValue objects its
\* map refers to.
Aggregator ==
    [kinds |-> kinds,
     op |-> opHeap[selfOp],
     by_name |-> by_name,
     samples |-> [n \in DOMAIN by_name |->
                    [sig \in DOMAIN by_name[n] |-> mvHeap[by_name[n][sig]]]]]

\* C5: as_operation does not change the aggregator: the operation it holds,
\* whose metricValueSets stay empty, its log entries, its time range and its
\* map with the samples in it are the same after the call.
C5_ExportIsPure ==
    [][calls' = calls =>
        /\ Aggregator' = Aggregator
        /\ opHeap'[selfOp'].metricValueSets = <<>>]_vars

\* An aggregator that holds log entries, a time range and samples of two
\* names has been exported, and an operation was added after that.
C5_Witness ==
    /\ result # None
    /\ exportedAt = 2
    /\ Len(calls) = 3
    /\ Len(exported.metricValueSets) = 2
    /\ exported.logEntries # <<>>
    /\ exported.startTime # <<>>

\* C6: an operation that as_operation returned is not altered by the add
\* calls made afterwards: its content stays what it was when it was returned.
C6_SnapshotImmutable ==
    result # None => Content(opHeap[result], mvHeap) = exported

\* The label mappings of the samples of a name in a sequence of calls.
MappingsOf(cs, name) ==
    {LabelSet(s.mv.labels) : s \in {x \in Range(SamplesOf(cs)) : x.name = name}}

\* C7: the map holds one MetricValue for each name and signature: samples
\* whose label mappings are equal as sets, whatever the order of their items,
\* are one entry, samples that differ in a label value are two, and a name
\* is exported with as many samples as label mappings were seen for it.
C7_OnePerSignature ==
    /\ \A n \in DOMAIN by_name :
        /\ \A sig \in DOMAIN by_name[n] : sign(mvHeap[by_name[n][sig]]) = sig
        /\ \A s1, s2 \in DOMAIN by_name[n] :
                LabelSet(s1) = LabelSet(s2) => s1 = s2
        /\ Untroubled(calls, n) =>
                Cardinality(DOMAIN by_name[n]) = Cardinality(MappingsOf(calls, n))
    /\ result # None =>
        \A i \in DOMAIN exported.metricValueSets :
            LET set == exported.metricValueSets[i]
            IN  /\ \A j, k \in DOMAIN set.metricValues :
                        LabelSet(set.metricValues[j].labels) = LabelSet(set.metricValues[k].labels)
                        => j = k
                /\ Untroubled(Prefix, set.metricName) =>
                        Len(set.metricValues) = Cardinality(MappingsOf(Prefix, set.metricName))

\* Samples labelled AB, BA and AB2 of one name have been merged, and the name
\* has been exported with two samples.
C7_Witness ==
    /\ result # None
    /\ exportedAt = 3
    /\ {s.mv.labels : s \in {x \in Range(SamplesOf(Prefix)) : x.name = 1}} = {AB, BA, AB2}
    /\ \E i \in DOMAIN exported.metricValueSets :
        /\ exported.metricValueSets[i].metricName = 1
        /\ Len(exported.metricValueSets[i].metricValues) = 2

RECURSIVE LogsOf(_)
\* The log entries of the operations of a sequence of calls, in call order.
LogsOf(cs) ==
    IF cs = <<>> THEN <<>>
    ELSE Head(cs).op.logEntries \o LogsOf(Tail(cs))

\* C8: the log entries are those of the initial operation followed by those
\* of each added operation in call order, each operation's own order and its
\* duplicates kept.
C8_LogsConcatenated ==
    /\ opHeap[selfOp].logEntries = LogsOf(calls)
    /\ result # None => exported.logEntries = LogsOf(Prefix)

\* Operations of two and of one log entries have been added and exported.
C8_Witness ==
    /\ result # None
    /\ exportedAt = 3
    /\ calls[1].op.logEntries = <<2, 1>>
    /\ calls[2].op.logEntries = <<1, 1>>
    /\ calls[3].op.logEntries = <<2, 1>>
    /\ exported.logEntries = <<2, 1, 1, 1, 2, 1>>

\* C9: the constructor folds the samples of the initial operation into the
\* map once and leaves no metric value set in the operation it keeps: that
\* operation's metricValueSets is always empty, an export made right after
\* construction has each initial sample once, and the caller's initial
\* operation is not modified.
C9_InitialFoldedOnce ==
    /\ opHeap[selfOp].metricValueSets = <<>>
    /\ Content(opHeap["initial_op"], mvHeap) = calls[1].op
    /\ (result # None /\ exportedAt = 1) =>
        /\ Ascending(SetNames(exported))
        /\ Range(SetNames(exported)) = NamesOf(calls[1].op)
        /\ \A s \in Range(SamplesOf(Prefix)) :
            LET L == LabelSet(s.mv.labels)
            IN  /\ Cardinality(ExportedSamples(s.name, L)) = 1
                /\ Len(Matching(Prefix, s.name, L)) = 1 => ExportedSamples(s.name, L) = {s.mv}
        /\ Len(SamplesOfSets(exported.metricValueSets))
            = Cardinality({<<s.name, LabelSet(s.mv.labels)>> : s \in Range(SamplesOf(Prefix))})

\* An aggregator made from an operation of two metric names has been
\* exported before any add.
C9_Witness ==
    /\ result # None
    /\ exportedAt = 1
    /\ SetNames(calls[1].op) = <<2, 1>>
    /\ Len(SamplesOfSets(exported.metricValueSets)) = 2

\* The distribution of a sample.
DistOf(mv) == mv.distributionValue[1]

\* C10: when add meets, under a DELTA metric, a distribution whose bucket
\* shape differs from that of the distribution stored under its signature,
\* the call raises and the entry of that signature is left as it was.
C10_ShapeMismatchRaises ==
    [][calls' # calls =>
        LET ss == SamplesOfSets(calls'[Len(calls')].op.metricValueSets)
        IN  \A i \in DOMAIN ss :
                LET name == ss[i].name
                    sig == sign(ss[i].mv)
                IN  (/\ KindOf(kinds, name) = DELTA
                     /\ ss[i].mv.distributionValue # <<>>
                     /\ \A j \in 1..(i - 1) : ~(ss[j].name = name /\ sign(ss[j].mv) = sig)
                     /\ name \in DOMAIN by_name
                     /\ sig \in DOMAIN by_name[name]
                     /\ mvHeap[by_name[name][sig]].distributionValue # <<>>
                     /\ ~SameShape(DistOf(mvHeap[by_name[name][sig]]), DistOf(ss[i].mv)))
                    => /\ raised'
                       /\ by_name'[name][sig] = by_name[name][sig]
                       /\ mvHeap'[by_name[name][sig]] = mvHeap[by_name[name][sig]]]_vars

\* An add of one distribution has raised, and the map holds a distribution
\* of another shape under the signature of that sample.
C10_Witness ==
    /\ raised
    /\ LET ss == SamplesOfSets(calls[Len(calls)].op.metricValueSets)
       IN  /\ Len(ss) = 1
           /\ ss[1].mv.distributionValue # <<>>
           /\ ~SameShape(DistOf(mvHeap[by_name[ss[1].name][sign(ss[1].mv)]]), DistOf(ss[1].mv))

RECURSIVE SumCounts(_)
\* The sum of the counts of the distributions of samples.
SumCounts(samples) ==
    IF samples = <<>> THEN 0
    ELSE DistOf(Head(samples).mv).count + SumCounts(Tail(samples))

RECURSIVE SumBucket(_, _)
\* The sum of the i-th bucket counts of the distributions of samples.
SumBucket(samples, i) ==
    IF samples = <<>> THEN 0
    ELSE DistOf(Head(samples).mv).bucketCounts[i] + SumBucket(Tail(samples), i)

\* The distributions of the samples of a sequence of calls.
DistsOf(cs) ==
    {DistOf(s.mv) : s \in {x \in Range(SamplesOf(cs)) : x.mv.distributionValue # <<>>}}

\* Two distributions agree bucket for bucket and in their count.
SameCounts(a, b) == a.bucketCounts = b.bucketCounts /\ a.count = b.count

\* C11: for distributions of one shape, merge sums the bucket counts
\* element-wise and sums the counts, so that it is commutative and
\* associative at that level; the distribution exported under a DELTA metric
\* has the element-wise sum of the buckets, and the sum of the counts, of all
\* the merged samples, whatever the order of the calls.
C11_DistributionSum ==
    /\ \A a, b \in DistsOf(calls) :
        SameShape(a, b) =>
            /\ ~distribution_merge(a, b).err
            /\ SameCounts(distribution_merge(a, b).latest, distribution_merge(b, a).latest)
            /\ \A c \in DistsOf(calls) :
                SameShape(b, c) =>
                    SameCounts(
                        distribution_merge(distribution_merge(a, b).latest, c).latest,
                        distribution_merge(a, distribution_merge(b, c).latest).latest)
    /\ result # None =>
        \A s \in Range(SamplesOf(Prefix)) :
            (/\ KindOf(kinds, s.name) = DELTA
             /\ s.mv.distributionValue # <<>>
             /\ Untroubled(Prefix, s.name))
            => LET L == LabelSet(s.mv.labels)
                   seen == Matching(Prefix, s.name, L)
                   out == ExportedSamples(s.name, L)
               IN  /\ out # {}
                   /\ \A e \in out :
                        /\ e.distributionValue # <<>>
                        /\ DistOf(e).count = SumCounts(seen)
                        /\ DOMAIN DistOf(e).bucketCounts = DOMAIN DistOf(s.mv).bucketCounts
                        /\ \A i \in DOMAIN DistOf(e).bucketCounts :
                                DistOf(e).bucketCounts[i] = SumBucket(seen, i)

\* Three one-sample distributions of one shape, not all in one bucket, have
\* been merged and exported.
C11_Witness ==
    /\ result # None
    /\ exportedAt = 3
    /\ \A i \in 1..3 : ~calls[i].raised /\ Len(SamplesOf(<<calls[i]>>)) = 1
    /\ \E s \in Range(SamplesOf(Prefix)) :
        /\ s.mv.distributionValue # <<>>
        /\ Len(Matching(Prefix, s.name, LabelSet(s.mv.labels))) = 3
        /\ \E e \in ExportedSamples(s.name, LabelSet(s.mv.labels)) :
            /\ DistOf(e).count = 3
            /\ DistOf(e).bucketCounts = <<1, 2, 0, 0>>

\* The export holds, for the name and the label mapping of a sample, the sum
\* of all the samples of that name and mapping.
Additive(s) ==
    LET L == LabelSet(s.mv.labels)
        seen == Matching(Prefix, s.name, L)
        out == ExportedSamples(s.name, L)
    IN  /\ out # {}
        /\ \A e \in out :
            IF s.mv.int64Value # <<>>
            THEN e.int64Value = <<SumInt64(seen)>>
            ELSE /\ DistOf(e).count = SumCounts(seen)
                 /\ \A i \in DOMAIN DistOf(e).bucketCounts :
                        DistOf(e).bucketCounts[i] = SumBucket(seen, i)

\* C12: a metric name that has no entry in the kind map, and every name when
\* no kind map was given, is merged additively, as DELTA; the entry of
\* another name, DELTA or not, does not change that.
C12_DefaultIsDelta ==
    result # None =>
        \A s \in Range(SamplesOf(Prefix)) :
            (s.name \notin DOMAIN kinds /\ Untroubled(Prefix, s.name)) => Additive(s)

\* With a GAUGE entry for metric 1 and none for metric 3, samples of both
\* were merged, and two samples of metric 3 were summed.
C12_Witness ==
    /\ result # None
    /\ 1 \in DOMAIN kinds /\ kinds[1] = GAUGE
    /\ 3 \notin DOMAIN kinds
    /\ 1 \in AllNames(Prefix)
    /\ Untroubled(Prefix, 3)
    /\ \E s \in Range(SamplesOf(Prefix)) :
        /\ s.name = 3
        /\ Len(Matching(Prefix, 3, LabelSet(s.mv.labels))) = 2
        /\ \E e \in ExportedSamples(3, LabelSet(s.mv.labels)) : DistOf(e).count = 2

\* The identifier, the name and the consumer identifier of an Operation.
Identity(op) ==
    [operationId |-> op.operationId,
     operationName |-> op.operationName,
     consumerId |-> op.consumerId]

\* The operation of a call holds no distribution, so that merging its samples
\* has nothing to refuse.
OnlyInt64(op) ==
    \A s \in Range(SamplesOfSets(op.metricValueSets)) : s.mv.distributionValue = <<>>

\* C14: the operation the aggregator holds, and every export of it, has the
\* identifier, the name and the consumer identifier of the initial operation,
\* whatever the identity of the operations added; and an add whose operation
\* holds nothing that a merge can refuse does not fail, whatever its identity.
C14_IdentityKept ==
    /\ Identity(opHeap[selfOp]) = Identity(calls[1].op)
    /\ result # None => Identity(exported) = Identity(calls[1].op)
    /\ \A k \in 2..Len(calls) :
        OnlyInt64(calls[k].op) => ~calls[k].raised

\* Two operations of two other identities were added without an error and
\* the aggregator was exported after that.
C14_Witness ==
    /\ Len(calls) = 3
    /\ exportedAt = 3
    /\ Identity(calls[2].op) # Identity(calls[1].op)
    /\ Identity(calls[3].op) # Identity(calls[1].op)
    /\ Identity(calls[3].op) # Identity(calls[2].op)
    /\ ~calls[2].raised /\ ~calls[3].raised
    /\ Identity(exported) = Identity(calls[1].op)

\* C16: an add that fails while merging a sample leaves the aggregator as it
\* was before the call: the log entries and the time range of the operation
\* it holds, its map and every sample stored in it.
C16_FailedAddLeavesState ==
    [][(calls' # calls /\ raised') => Aggregator' = Aggregator]_vars

\* The (metric name, signature) pairs of the samples of an operation.
Touched(op) ==
    {<<s.name, sign(s.mv)>> : s \in Range(SamplesOfSets(op.metricValueSets))}

INT64 == "INT64"
DISTRIBUTION == "DISTRIBUTION"

\* _add_metric_value
_add_metric_value(name, value, op) ==
    [op EXCEPT !.metricValueSets = Append(@, MetricValueSet(name, <<value>>))]

\* _add_int64_metric_value
_add_int64_metric_value(name, value, op) ==
    _add_metric_value(name, Int64(NoLabels, value), op)

\* _set_int64_metric_to_constant_1
_set_int64_metric_to_constant_1(name, info, op) ==
    _add_int64_metric_value(name, 1, op)

\* A mutant of _set_int64_metric_to_constant_1_if_http_error: the code 400 is
\* not counted as an error.
_set_int64_metric_to_constant_1_if_above_400(name, info, op) ==
    IF info.response_code > 400 THEN _add_int64_metric_value(name, 1, op) ELSE op

\* _set_int64_metric_to_constant_1_if_http_error
_set_int64_metric_to_constant_1_if_http_error(name, info, op) ==
    IF info.response_code >= 400 THEN _add_int64_metric_value(name, 1, op) ELSE op

\* _add_distribution_metric_value
_add_distribution_metric_value(name, value, op, distribution_args) ==
    _add_metric_value(name, Distribution(NoLabels, distribution_args, value), op)

_SIZE_DISTRIBUTION_ARGS == <<8, 10, 1000000>>

\* _set_distribution_metric_to_request_size
_set_distribution_metric_to_request_size(name, info, op) ==
    IF info.request_size >= 0
    THEN _add_distribution_metric_value(name, info.request_size, op, _SIZE_DISTRIBUTION_ARGS)
    ELSE op

\* _set_distribution_metric_to_response_size
_set_distribution_metric_to_response_size(name, info, op) ==
    IF info.response_size >= 0
    THEN _add_distribution_metric_value(name, info.response_size, op, _SIZE_DISTRIBUTION_ARGS)
    ELSE op

_TIME_DISTRIBUTION_ARGS == <<8, 10, 1>>

\* The truth value of an optional timedelta: None and the zero timedelta are
\* false.  A timedelta is <<>> when None, else <<[seconds, microseconds]>>.
Truthy(td) == td # <<>> /\ (td[1].seconds # 0 \/ td[1].microseconds # 0)

\* _set_distribution_metric_to_request_time
_set_distribution_metric_to_request_time(name, info, op) ==
    IF Truthy(info.request_time)
    THEN _add_distribution_metric_value(name, info.request_time[1].seconds, op,
                                        _TIME_DISTRIBUTION_ARGS)
    ELSE op

\* _set_distribution_metric_to_backend_time
_set_distribution_metric_to_backend_time(name, info, op) ==
    IF Truthy(info.backend_time)
    THEN _add_distribution_metric_value(name, info.backend_time[1].seconds, op,
                                        _TIME_DISTRIBUTION_ARGS)
    ELSE op

\* _set_distribution_metric_to_overhead_time
_set_distribution_metric_to_overhead_time(name, info, op) ==
    IF Truthy(info.overhead_time)
    THEN _add_distribution_metric_value(name, info.overhead_time[1].seconds, op,
                                        _TIME_DISTRIBUTION_ARGS)
    ELSE op

\* A member of the enumeration KnownMetrics.
Known(member, metric_name, kind, value_type, update_op_func) ==
    [member |-> member, metric_name |-> metric_name, kind |-> kind,
     value_type |-> value_type, update_op_func |-> update_op_func]

\* The members of KnownMetrics, in the order of their definition.
KnownMetrics ==
    << Known("CONSUMER_REQUEST_COUNT",
             "serviceruntime.googleapis.com/api/consumer/request_count",
             DELTA, INT64, "constant_1"),
       Known("PRODUCER_REQUEST_COUNT",
             "serviceruntime.googleapis.com/api/producer/request_count",
             DELTA, INT64, "constant_1"),
       Known("PRODUCER_BY_CONSUMER_REQUEST_COUNT",
             "serviceruntime.googleapis.com/api/producer/by_consumer/request_count",
             DELTA, INT64, "constant_1"),
       Known("CONSUMER_REQUEST_SIZES",
             "serviceruntime.googleapis.com/api/consumer/request_sizes",
             DELTA, DISTRIBUTION, "request_size"),
       Known("PRODUCER_REQUEST_SIZES",
             "serviceruntime.googleapis.com/api/producer/request_sizes",
             DELTA, DISTRIBUTION, "request_size"),
       Known("PRODUCER_BY_CONSUMER_REQUEST_SIZES",
             "serviceruntime.googleapis.com/api/producer/by_consumer/request_sizes",
             DELTA, DISTRIBUTION, "request_size"),
       Known("CONSUMER_RESPONSE_SIZES",
             "serviceruntime.googleapis.com/api/consumer/response_sizes",
             DELTA, DISTRIBUTION, "response_size"),
       Known("PRODUCER_RESPONSE_SIZES",
             "serviceruntime.googleapis.com/api/producer/response_sizes",
             DELTA, DISTRIBUTION, "response_size"),
       Known("PRODUCER_BY_CONSUMER_RESPONSE_SIZES",
             "serviceruntime.googleapis.com/api/producer/by_consumer/response_sizes",
             DELTA, DISTRIBUTION, "response_size"),
       Known("CONSUMER_ERROR_COUNT",
             "serviceruntime.googleapis.com/api/consumer/error_count",
             DELTA, INT64, "constant_1_if_http_error"),
       Known("PRODUCER_ERROR_COUNT",
             "serviceruntime.googleapis.com/api/producer/error_count",
             DELTA, INT64, "constant_1_if_http_error"),
       Known("PRODUCER_BY_CONSUMER_ERROR_COUNT",
             "serviceruntime.googleapis.com/api/producer/by_consumer/error_count",
             DELTA, INT64, "constant_1_if_http_error"),
       Known("CONSUMER_TOTAL_LATENCIES",
             "serviceruntime.googleapis.com/api/consumer/total_latencies",
             DELTA, DISTRIBUTION, "request_time"),
       Known("PRODUCER_TOTAL_LATENCIES",
             "serviceruntime.googleapis.com/api/producer/total_latencies",
             DELTA, DISTRIBUTION, "request_time"),
       Known("PRODUCER_BY_CONSUMER_TOTAL_LATENCIES",
             "serviceruntime.googleapis.com/api/producer/by_consumer/total_latencies",
             DELTA, DISTRIBUTION, "request_time"),
       Known("CONSUMER_BACKEND_LATENCIES",
             "serviceruntime.googleapis.com/api/consumer/backend_latencies",
             DELTA, DISTRIBUTION, "backend_time"),
       Known("PRODUCER_BACKEND_LATENCIES",
             "serviceruntime.googleapis.com/api/producer/backend_latencies",
             DELTA, DISTRIBUTION, "backend_time"),
       Known("PRODUCER_BY_CONSUMER_BACKEND_LATENCIES",
             "serviceruntime.googleapis.com/api/producer/by_consumer/backend_latencies",
             DELTA, DISTRIBUTION, "backend_time"),
       Known("CONSUMER_REQUEST_OVERHEAD_LATENCIES",
             "serviceruntime.googleapis.com/api/consumer/request_overhead_latencies",
             DELTA, DISTRIBUTION, "overhead_time"),
       Known("PRODUCER_REQUEST_OVERHEAD_LATENCIES",
             "serviceruntime.googleapis.com/api/producer/request_overhead_latencies",
             DELTA, DISTRIBUTION, "overhead_time"),
       Known("PRODUCER_BY_CONSUMER_REQUEST_OVERHEAD_LATENCIES",
             "serviceruntime.googleapis.com/api/producer/by_consumer/request_overhead_latencies",
             DELTA, DISTRIBUTION, "overhead_time") >>

\* A mutant of matches: only the name is compared.
matches_name(self, desc) == self.metric_name = desc.name

\* KnownMetrics.matches
matches(self, desc) ==
    /\ self.metric_name = desc.name
    /\ self.kind = desc.metricKind
    /\ self.value_type = desc.valueType

RECURSIVE AnyMatches(_, _)
\* The loop of is_supported over the members: TRUE at the first that matches.
AnyMatches(members, desc) ==
    IF members = <<>> THEN FALSE
    ELSE IF matches(Head(members), desc) THEN TRUE
    ELSE AnyMatches(Tail(members), desc)

\* KnownMetrics.is_supported
is_supported(desc) == AnyMatches(KnownMetrics, desc)

\* KnownMetrics.do_operation_update: the Operation after the call.
do_operation_update(self, info, op) ==
    CASE self.update_op_func = "constant_1" ->
            _set_int64_metric_to_constant_1(self.metric_name, info, op)
      [] self.update_op_func = "constant_1_if_http_error" ->
            _set_int64_metric_to_constant_1_if_http_error(self.metric_name, info, op)
      [] self.update_op_func = "request_size" ->
            _set_distribution_metric_to_request_size(self.metric_name, info, op)
      [] self.update_op_func = "response_size" ->
            _set_distribution_metric_to_response_size(self.metric_name, info, op)
      [] self.update_op_func = "request_time" ->
            _set_distribution_metric_to_request_time(self.metric_name, info, op)
      [] self.update_op_func = "backend_time" ->
            _set_distribution_metric_to_backend_time(self.metric_name, info, op)
      [] self.update_op_func = "overhead_time" ->
            _set_distribution_metric_to_overhead_time(self.metric_name, info, op)

\* The metric descriptors asked about: every known name, an unknown one and
\* None, with every kind and value type, known to KnownMetrics or not.
Descriptors ==
    [name : {KnownMetrics[i].metric_name : i \in DOMAIN KnownMetrics} \cup {"other", None},
     metricKind : {DELTA, GAUGE, "CUMULATIVE", None},
     valueType : {INT64, DISTRIBUTION, "DOUBLE", None}]

\* An optional timedelta.
TimeDelta(seconds, microseconds) == <<[seconds |-> seconds, microseconds |-> microseconds]>>

\* The report_request.Info given to do_operation_update.
Infos ==
    [response_code : {399, 400},
     request_size : {-1, 2000000},
     response_size : {-1, 0},
     request_time : {TimeDelta(0, 0), TimeDelta(3, 0)},
     backend_time : {<<>>, TimeDelta(20, 0)},
     overhead_time : {<<>>, TimeDelta(0, 500)}]

\* The Operation given to do_operation_update: an empty one, and one that
\* already has log entries, times and a metric value set.
UpdatedOps ==
    {Operation(1, <<>>, <<>>, <<>>, <<>>),
     Operation(1, <<1>>, <<2>>, <<1>>,
               <<MetricValueSet(KnownMetrics[1].metric_name, <<Int64(NoLabels, 1)>>)>>)}

\* The record of a call on KnownMetrics; the fields a call does not use hold
\* a fixed value.
Called(call, metric, desc, info, answer, before) ==
    [call |-> call, metric |-> metric, desc |-> desc, info |-> info,
     answer |-> answer, before |-> before]

NoDescriptor == [name |-> None, metricKind |-> None, valueType |-> None]

NoInfo ==
    [response_code |-> 399, request_size |-> -1, response_size |-> -1,
     request_time |-> <<>>, backend_time |-> <<>>, overhead_time |-> <<>>]

\* No aggregator is made in the behaviours of the registry.
InitKnownMetrics ==
    /\ kinds = None /\ by_name = None /\ selfOp = None
    /\ opHeap = None /\ mvHeap = None
    /\ result = None /\ exported = None /\ exportedAt = 0
    /\ calls = None /\ raised = FALSE
    /\ an_op \in UpdatedOps
    /\ updates = 0
    /\ last = Called("none", KnownMetrics[1], NoDescriptor, NoInfo, FALSE, an_op)

\* KnownMetrics.is_supported(desc).  The questions read nothing but their
\* argument: a behaviour asks one, of a registry that has done nothing yet.
IsSupported ==
    /\ last.call = "none"
    /\ \E desc \in Descriptors :
        last' = Called("is_supported", KnownMetrics[1], desc, NoInfo, is_supported(desc), an_op)
    /\ UNCHANGED <<aggVars, an_op, updates>>

\* member.matches(desc)
Matches ==
    /\ last.call = "none"
    /\ \E i \in DOMAIN KnownMetrics, desc \in Descriptors :
        last' = Called("matches", KnownMetrics[i], desc, NoInfo,
                       matches(KnownMetrics[i], desc), an_op)
    /\ UNCHANGED <<aggVars, an_op, updates>>

\* member.do_operation_update(info, an_op)
DoOperationUpdate ==
    /\ last.call \in {"none", "do_operation_update"}
    /\ updates < MaxUpdates
    /\ \E i \in DOMAIN KnownMetrics, info \in Infos :
        /\ an_op' = do_operation_update(KnownMetrics[i], info, an_op)
        /\ last' = Called("do_operation_update", KnownMetrics[i], NoDescriptor, info,
                          FALSE, an_op)
    /\ updates' = updates + 1
    /\ UNCHANGED aggVars

NextKnownMetrics == IsSupported \/ Matches \/ DoOperationUpdate

SpecKnownMetrics == InitKnownMetrics /\ [][NextKnownMetrics]_vars

\* The known metrics that agree with a descriptor in name, kind and value type.
Agreeing(desc) ==
    {i \in DOMAIN KnownMetrics :
        /\ KnownMetrics[i].metric_name = desc.name
        /\ KnownMetrics[i].kind = desc.metricKind
        /\ KnownMetrics[i].value_type = desc.valueType}

\* C13: is_supported(desc) and matches(desc) answer with a boolean for every
\* descriptor; is_supported is TRUE exactly when some known metric has the
\* name, the kind and the value type of desc, so that a descriptor with a
\* known name and another kind or value type is not supported.
C13_SupportedIffKnown ==
    /\ last.call = "is_supported" =>
        /\ last.answer \in BOOLEAN
        /\ last.answer <=> Agreeing(last.desc) # {}
    /\ last.call = "matches" =>
        /\ last.answer \in BOOLEAN
        /\ last.answer <=> (\E i \in Agreeing(last.desc) : KnownMetrics[i] = last.metric)

\* is_supported was asked about a known name with the kind of that metric
\* and another value type.
C13_Witness ==
    /\ last.call = "is_supported"
    /\ last.desc.name = KnownMetrics[4].metric_name
    /\ last.desc.metricKind = KnownMetrics[4].kind
    /\ last.desc.valueType = INT64
    /\ KnownMetrics[4].value_type = DISTRIBUTION
    /\ ~last.answer

\* The members of KnownMetrics by what they measure.
RequestCounts ==
    {"CONSUMER_REQUEST_COUNT", "PRODUCER_REQUEST_COUNT", "PRODUCER_BY_CONSUMER_REQUEST_COUNT"}
ErrorCounts ==
    {"CONSUMER_ERROR_COUNT", "PRODUCER_ERROR_COUNT", "PRODUCER_BY_CONSUMER_ERROR_COUNT"}
RequestSizes ==
    {"CONSUMER_REQUEST_SIZES", "PRODUCER_REQUEST_SIZES", "PRODUCER_BY_CONSUMER_REQUEST_SIZES"}
ResponseSizes ==
    {"CONSUMER_RESPONSE_SIZES", "PRODUCER_RESPONSE_SIZES", "PRODUCER_BY_CONSUMER_RESPONSE_SIZES"}

\* The sets the last do_operation_update found on the operation, and those
\* it left on it.
SetsBefore == last.before.metricValueSets
SetsAfter == an_op.metricValueSets
Appended == Len(SetsAfter) = Len(SetsBefore) + 1
TheSample == SetsAfter[Len(SetsAfter)].metricValues[1]

IsInt64One(mv) == mv.int64Value = <<1>> /\ mv.distributionValue = <<>>
IsOneSampleDistribution(mv) ==
    /\ mv.int64Value = <<>>
    /\ mv.distributionValue # <<>>
    /\ mv.distributionValue[1].count = 1

\* C15: do_operation_update leaves the sets that were on the operation as
\* they were and appends at most one set, named with the metric's name and
\* holding exactly one sample; a request-count metric always appends int64 1,
\* an error-count metric appends int64 1 exactly when response_code >= 400,
\* and a request or response size metric appends a distribution of one sample
\* exactly when the size is >= 0.
C15_OneSetPerUpdate ==
    last.call = "do_operation_update" =>
        /\ Len(SetsAfter) \in {Len(SetsBefore), Len(SetsBefore) + 1}
        /\ SubSeq(SetsAfter, 1, Len(SetsBefore)) = SetsBefore
        /\ [an_op EXCEPT !.metricValueSets = SetsBefore] = last.before
        /\ Appended =>
            /\ SetsAfter[Len(SetsAfter)].metricName = last.metric.metric_name
            /\ Len(SetsAfter[Len(SetsAfter)].metricValues) = 1
        /\ last.metric.member \in RequestCounts => Appended /\ IsInt64One(TheSample)
        /\ last.metric.member \in ErrorCounts =>
            /\ Appended <=> last.info.response_code >= 400
            /\ Appended => IsInt64One(TheSample)
        /\ last.metric.member \in RequestSizes =>
            /\ Appended <=> last.info.request_size >= 0
            /\ Appended => IsOneSampleDistribution(TheSample)
        /\ last.metric.member \in ResponseSizes =>
            /\ Appended <=> last.info.response_size >= 0
            /\ Appended => IsOneSampleDistribution(TheSample)

\* An error-count metric has updated, for the response code 400, an
\* operation that held a set already.
C15_Witness ==
    /\ last.call = "do_operation_update"
    /\ last.metric.member = "PRODUCER_ERROR_COUNT"
    /\ last.info.response_code = 400
    /\ Len(SetsBefore) = 1
    /\ Len(SetsAfter) = 2
    /\ IsInt64One(TheSample)

====
